---- MODULE Spec2Model ----
(***************************************************************************)
(* Model of the two signal detectors of trading-agents:                    *)
(*   agents/kangaroo_tail_agent.py   (KangarooTailAgent)                   *)
(*   agents/macd_divergence_agent.py (MACDDivergenceAgent)                 *)
(*                                                                         *)
(* Numbers.  Prices are integers counted in units of eps (1e-9), so that   *)
(* Eps = 1 and every comparison of the code is an exact comparison of      *)
(* rationals (a ratio is a pair <<numerator, denominator>>).  Timestamps   *)
(* are integers counted in ticks, TicksPerDay ticks to the day.            *)
(* Floating-point rounding is not modelled.                                *)
(*                                                                         *)
(* Indices.  Row positions and Signal idx values are 0-based as in the     *)
(* code; row i of a frame is rows[i + 1].                                  *)
(***************************************************************************)
EXTENDS Integers, Sequences, FiniteSets

VARIABLES agent, cfg, df, frame, ret, prev, calls,
          pc, current_date, sym, fetched, fetches, results

vars == <<agent, cfg, df, frame, ret, prev, calls,
          pc, current_date, sym, fetched, fetches, results>>

(***************************************************************************)
(* Bounds of the model                                                     *)
(***************************************************************************)
MaxPrice == 3
MaxTrend == 3
KMaxLen == 3
TicksPerDay == 2

(***************************************************************************)
(* Program constants                                                       *)
(***************************************************************************)
Eps == 1
RangeFactor == 2
MinShadowShare == <<2, 5>>
DefaultTailMinRatio == <<2, 1>>
DefaultBodyMaxRatio == <<7, 20>>

(***************************************************************************)
(* Arithmetic helpers                                                      *)
(***************************************************************************)
Max(a, b) == IF a >= b THEN a ELSE b
Min(a, b) == IF a <= b THEN a ELSE b
Abs(a) == IF a >= 0 THEN a ELSE -a

\* Body(v) with v evaluated once
With(v, Body(_)) == CHOOSE r \in {Body(x) : x \in {v}} : TRUE

RECURSIVE SeqSum(_)
SeqSum(s) == IF s = <<>> THEN 0 ELSE s[1] + SeqSum(Tail(s))

\* a rational is <<n, d>> with d > 0
RLess(a, b) == a[1] * b[2] < b[1] * a[2]
RMul(a, b) == <<a[1] * b[1], a[2] * b[2]>>

\* Python float division: x / y, ZeroDivisionError when y = 0
Divide(x, y) == IF y = 0 THEN [err |-> "ZeroDivisionError"] ELSE [err |-> "none", q |-> <<x, y>>]

\* pandas Series.mean(): NaN for an empty series
Mean(s) == IF Len(s) = 0 THEN [nan |-> TRUE] ELSE [nan |-> FALSE, q |-> <<SeqSum(s), Len(s)>>]

\* pandas Series.diff().dropna(): the day-over-day differences
Diffs(s) == [k \in 1..(Len(s) - 1) |-> s[k + 1] - s[k]]

\* Python slice s[a:b] of a sequence, 0-based, a and b already clipped to 0..len
Slice(s, a, b) == [k \in 1..(Min(b, Len(s)) - a) |-> s[a + k]]

(***************************************************************************)
(* Frames: _prepare_df                                                     *)
(***************************************************************************)
Mandatory == {"open", "high", "low", "close", "volume"}

\* the required columns in the order the loop tests them
MandatoryOrder == <<"open", "high", "low", "close", "volume">>

RECURSIVE InsertByDate(_, _)
InsertByDate(sorted, r) ==
    IF sorted = <<>> THEN <<r>>
    ELSE IF sorted[Len(sorted)].date <= r.date THEN Append(sorted, r)
    ELSE Append(InsertByDate(SubSeq(sorted, 1, Len(sorted) - 1), r), sorted[Len(sorted)])

RECURSIVE SortValues(_)
\* df.sort_values("date"): ascending by the date column
SortValues(rows) ==
    IF rows = <<>> THEN <<>>
    ELSE InsertByDate(SortValues(SubSeq(rows, 1, Len(rows) - 1)), rows[Len(rows)])

\* reset_index(drop=True): the index becomes 0..n-1
RangeIndex(rows) == [k \in 1..Len(rows) |-> [rows[k] EXCEPT !.index = k - 1]]

\* df.reset_index().rename(columns={"index": "date"}): the index labels become a
\* column named after the index ("index" when it has no name, then renamed "date")
ResetIndex(t) ==
    LET name == IF t.iname = "none" THEN "date" ELSE t.iname
        put(r) == IF name = "volume" THEN r ELSE [r EXCEPT ![name] = r.index]
    IN  IF name \in t.cols
        THEN [err |-> "ValueError"]
        ELSE [err |-> "none",
              cols |-> t.cols \cup {name},
              rows |-> RangeIndex([k \in 1..Len(t.rows) |-> put(t.rows[k])])]

\* the loop over the five required columns
MissingColumn(cols) == \E k \in 1..Len(MandatoryOrder) : MandatoryOrder[k] \notin cols

PrepareDf(t) ==
    LET f == IF "date" \in t.cols
             THEN [err |-> "none", cols |-> t.cols, rows |-> RangeIndex(SortValues(t.rows))]
             ELSE ResetIndex(t)
    IN  IF f.err # "none" THEN f
        ELSE IF MissingColumn(f.cols) THEN [err |-> "ValueError"]
        ELSE f

(***************************************************************************)
(* KangarooTailAgent.detect_signals                                        *)
(***************************************************************************)
Body(r) == Abs(r.close - r.open)
UpperShadow(r) == Max(r.high - Max(r.close, r.open), 0)
LowerShadow(r) == Max(Min(r.close, r.open) - r.low, 0)
FullRange(r) == Max(r.high - r.low, Eps)

\* the ranges of the bars start_idx .. idx-1
RecentRanges(rows, idx, N) ==
    LET start_idx == Max(0, idx - N)
    IN  [k \in 1..(idx - start_idx) |-> Max(rows[start_idx + k].high - rows[start_idx + k].low, Eps)]

AvgRange(rows, idx, N) ==
    LET recent_ranges == RecentRanges(rows, idx, N)
    IN  IF Len(recent_ranges) = 0 THEN <<Eps, 1>>
        ELSE <<SeqSum(recent_ranges), Len(recent_ranges)>>

\* faulty variant: the length of prices is not tested
IsDowntrendUnguarded(c, prices) ==
    LET m == Mean(Diffs(prices)) IN (~m.nan) /\ RLess(m.q, <<0, 1>>)

IsDowntrend(c, prices) ==
    IF Len(prices) < c.min_trend_days THEN FALSE
    ELSE LET m == Mean(Diffs(prices)) IN (~m.nan) /\ RLess(m.q, <<0, 1>>)

\* faulty variant: a flat trend counts as an uptrend
IsUptrendOrFlat(c, prices) ==
    IF Len(prices) < c.min_trend_days THEN FALSE
    ELSE LET m == Mean(Diffs(prices)) IN (~m.nan) /\ ~RLess(m.q, <<0, 1>>)

IsUptrend(c, prices) ==
    IF Len(prices) < c.min_trend_days THEN FALSE
    ELSE LET m == Mean(Diffs(prices)) IN (~m.nan) /\ RLess(<<0, 1>>, m.q)

Closes(rows) == [k \in 1..Len(rows) |-> rows[k].close]

PrevCloses(c, rows, idx) == Slice(Closes(rows), Max(0, idx - c.min_trend_days), idx)

\* faulty variant: the share of the shadow in the range is not tested
TailGateNoShare(c, rows, idx, shadow, trendOk) ==
    LET r == rows[idx + 1]
    IN  IF RLess(<<shadow, 1>>, RMul(c.tail_min_ratio, <<Max(Body(r), Eps), 1>>)) THEN "continue"
        ELSE IF c.trend_required /\ ~trendOk THEN "continue"
        ELSE "append"

\* the tail tests of one side: shadow is the shadow on that side
TailGate(c, rows, idx, shadow, trendOk) ==
    LET r == rows[idx + 1]
        share == Divide(shadow, FullRange(r))
    IN  IF RLess(<<shadow, 1>>, RMul(c.tail_min_ratio, <<Max(Body(r), Eps), 1>>)) THEN "continue"
        ELSE IF share.err # "none" THEN share.err
        ELSE IF RLess(share.q, MinShadowShare) THEN "continue"
        ELSE IF c.trend_required /\ ~trendOk THEN "continue"
        ELSE "append"

\* the body of the loop over the rows: "continue", "append" or the error raised
KBar(c, rows, idx) ==
    LET r == rows[idx + 1]
        avg_range == AvgRange(rows, idx, c.min_trend_days)
        bodyShare == Divide(Body(r), FullRange(r))
    IN  IF RLess(<<FullRange(r), 1>>, RMul(<<RangeFactor, 1>>, avg_range)) THEN "continue"
        ELSE IF bodyShare.err # "none" THEN bodyShare.err
        ELSE IF RLess(c.body_max_ratio, bodyShare.q) THEN "continue"
        ELSE IF c.tail_type = "lower"
             THEN TailGate(c, rows, idx, LowerShadow(r), IsDowntrend(c, PrevCloses(c, rows, idx)))
             ELSE TailGate(c, rows, idx, UpperShadow(r), IsUptrend(c, PrevCloses(c, rows, idx)))

KSignal(c, r, idx) ==
    [date |-> r.date, type |-> c.tail_type, body |-> Body(r),
     lower_shadow |-> LowerShadow(r), upper_shadow |-> UpperShadow(r),
     full_range |-> FullRange(r), close |-> r.close, open |-> r.open, idx |-> idx]

RECURSIVE KScanNewestFirst(_, _, _, _)
\* faulty variant: each Signal is put in front of the ones found before it
KScanNewestFirst(c, f, idx, signals) ==
    IF idx >= Len(f.rows) THEN [kind |-> "ok", signals |-> signals]
    ELSE LET out == KBar(c, f.rows, idx)
         IN  IF out = "continue" THEN KScanNewestFirst(c, f, idx + 1, signals)
             ELSE IF out # "append" THEN [kind |-> out, signals |-> <<>>]
             ELSE IF "date" \notin f.cols THEN [kind |-> "KeyError", signals |-> <<>>]
             ELSE KScanNewestFirst(c, f, idx + 1, <<KSignal(c, f.rows[idx + 1], idx)>> \o signals)

RECURSIVE KScan(_, _, _, _)
\* for i in range(len(df)): ...  from position idx on
KScan(c, f, idx, signals) ==
    IF idx >= Len(f.rows) THEN [kind |-> "ok", signals |-> signals]
    ELSE LET out == KBar(c, f.rows, idx)
         IN  IF out = "continue" THEN KScan(c, f, idx + 1, signals)
             ELSE IF out # "append" THEN [kind |-> out, signals |-> <<>>]
             ELSE IF "date" \notin f.cols THEN [kind |-> "KeyError", signals |-> <<>>]
             ELSE KScan(c, f, idx + 1, Append(signals, KSignal(c, f.rows[idx + 1], idx)))

KDetectSignals(c, t) ==
    With(PrepareDf(t), LAMBDA f :
        IF f.err # "none"
        THEN [kind |-> f.err, signals |-> <<>>, frame |-> f]
        ELSE With(KScan(c, f, 0, <<>>), LAMBDA s :
                 [kind |-> s.kind, signals |-> s.signals, frame |-> f]))

(***************************************************************************)
(* MACDDivergenceAgent._calc_macd                                          *)
(*                                                                         *)
(* The smoothing factor of a span is 2/(span+1).  All three series are     *)
(* held multiplied by Scale, a power of the denominators large enough for  *)
(* every value of a series of that length to be an integer, so the         *)
(* recursion is exact.                                                     *)
(***************************************************************************)
RECURSIVE Gcd(_, _)
Gcd(a, b) == IF b = 0 THEN a ELSE Gcd(b, a % b)
Lcm(a, b) == (a * b) \div Gcd(a, b)

RECURSIVE Pow(_, _)
Pow(b, e) == IF e <= 0 THEN 1 ELSE b * Pow(b, e - 1)

\* the denominator of 2/(span+1) in lowest terms
AlphaDen(span) == (span + 1) \div Gcd(2, span + 1)

Scale(c, n) ==
    Pow(Lcm(AlphaDen(c.short_window), AlphaDen(c.long_window)) * AlphaDen(c.signal_window), n - 1)

RECURSIVE EwmZeroSeed(_, _, _, _)
\* faulty variant: the average starts from zero instead of the first observation
EwmZeroSeed(x, span, t, y) ==
    IF t > Len(x) THEN y
    ELSE EwmZeroSeed(x, span, t + 1,
                     Append(y, (2 * x[t] + (span - 1) * (IF t = 1 THEN 0 ELSE y[t - 1]))
                                   \div (span + 1)))

RECURSIVE EwmFrom(_, _, _, _)
EwmFrom(x, span, t, y) ==
    IF t > Len(x) THEN y
    ELSE EwmFrom(x, span, t + 1,
                 Append(y, IF t = 1 THEN x[1]
                           ELSE (2 * x[t] + (span - 1) * y[t - 1]) \div (span + 1)))

\* Series.ewm(span=span, adjust=False).mean():
\* y[0] = x[0], y[t] = (1 - a) * y[t-1] + a * x[t] with a = 2/(span+1)
Ewm(x, span) == EwmFrom(x, span, 1, <<>>)

CalcMacd(c, close) ==
    LET n == Len(close)
        scale == Scale(c, n)
        x == [k \in 1..n |-> close[k] * scale]
        ema_short == Ewm(x, c.short_window)
        ema_long == Ewm(x, c.long_window)
        diff == [k \in 1..n |-> ema_short[k] - ema_long[k]]
        dea == Ewm(diff, c.signal_window)
        hist == [k \in 1..n |-> diff[k] - dea[k]]
    IN  [diff |-> diff, dea |-> dea, hist |-> hist]

(***************************************************************************)
(* MACDDivergenceAgent._find_local_extrema (scipy argrelextrema, clip)     *)
(***************************************************************************)
ExtremaOrder == 3

\* numpy take(..., mode="clip"): an index outside 0..n-1 is moved to the nearest end
Clip(i, n) == IF i < 0 THEN 0 ELSE IF i > n - 1 THEN n - 1 ELSE i

\* faulty variant: np.less / np.greater
CompareStrict(mode, a, b) == IF mode = "min" THEN a < b ELSE a > b

\* np.less_equal / np.greater_equal
Compare(mode, a, b) == IF mode = "min" THEN a <= b ELSE a >= b

RECURSIVE Ascending(_)
\* the members of a finite set of integers in ascending order (np.nonzero)
Ascending(S) ==
    IF S = {} THEN <<>>
    ELSE LET m == CHOOSE x \in S : \A y \in S : x <= y
         IN  <<m>> \o Ascending(S \ {m})

FindLocalExtrema(series, order, mode) ==
    LET n == Len(series)
        at(i) == series[Clip(i, n) + 1]
        hit(i) == \A shift \in 1..order :
                      /\ Compare(mode, at(i), at(i + shift))
                      /\ Compare(mode, at(i), at(i - shift))
    IN  Ascending({i \in 0..(n - 1) : hit(i)})

(***************************************************************************)
(* MACDDivergenceAgent.detect_signals                                      *)
(***************************************************************************)
\* (date2 - date1).days
Days(date1, date2) == (date2 - date1) \div TicksPerDay

MSignal(kind, rows, hist, idx1, idx2) ==
    [date |-> rows[idx2 + 1].date, type |-> kind,
     price1 |-> rows[idx1 + 1].close, price2 |-> rows[idx2 + 1].close,
     macd_hist1 |-> hist[idx1 + 1], macd_hist2 |-> hist[idx2 + 1], idx |-> idx2]

\* the divergence test of one pair of extrema
Diverges(kind, price1, price2, hist1, hist2) ==
    IF kind = "bullish_divergence"
    THEN price2 < price1 /\ hist2 > hist1
    ELSE price2 > price1 /\ hist2 < hist1

RECURSIVE PairLoop(_, _, _, _, _, _, _)
\* for i in range(len(idxs) - 1): ...  from position i on
PairLoop(c, f, hist, kind, idxs, i, signals) ==
    IF i >= Len(idxs) - 1 THEN [kind |-> "ok", signals |-> signals]
    ELSE IF "date" \notin f.cols THEN [kind |-> "KeyError", signals |-> <<>>]
    ELSE LET idx1 == idxs[i + 1]
             idx2 == idxs[i + 2]
         IN  IF Days(f.rows[idx1 + 1].date, f.rows[idx2 + 1].date) < c.min_gap_days
             THEN PairLoop(c, f, hist, kind, idxs, i + 1, signals)
             ELSE IF Diverges(kind, f.rows[idx1 + 1].close, f.rows[idx2 + 1].close,
                              hist[idx1 + 1], hist[idx2 + 1])
             THEN PairLoop(c, f, hist, kind, idxs, i + 1,
                           Append(signals, MSignal(kind, f.rows, hist, idx1, idx2)))
             ELSE PairLoop(c, f, hist, kind, idxs, i + 1, signals)

\* the two loops over the pairs of extrema, on the frame with its MACD columns
MScan(c, g) ==
    With(PairLoop(c, g, g.macd.hist, "bullish_divergence", g.low_idxs, 0, <<>>), LAMBDA lows :
        IF lows.kind # "ok"
        THEN [kind |-> lows.kind, signals |-> <<>>, frame |-> g]
        ELSE With(PairLoop(c, g, g.macd.hist, "bearish_divergence", g.high_idxs, 0, lows.signals),
                  LAMBDA all : [kind |-> all.kind, signals |-> all.signals, frame |-> g]))

MDetectSignals(c, t) ==
    With(PrepareDf(t), LAMBDA f :
        IF f.err # "none"
        THEN [kind |-> f.err, signals |-> <<>>, frame |-> f]
        ELSE MScan(c, [err |-> "none",
                       cols |-> f.cols \cup {"macd_diff", "macd_dea", "macd_hist"},
                       rows |-> f.rows,
                       macd |-> CalcMacd(c, Closes(f.rows)),
                       low_idxs |-> FindLocalExtrema(Closes(f.rows), ExtremaOrder, "min"),
                       high_idxs |-> FindLocalExtrema(Closes(f.rows), ExtremaOrder, "max")]))

DetectSignals(a, c, t) == IF a = "kangaroo" THEN KDetectSignals(c, t) ELSE MDetectSignals(c, t)

(***************************************************************************)
(* KangarooTailAgent.run and MACDDivergenceAgent.run                       *)
(***************************************************************************)
\* faulty variant: strptime takes None as well
DateParsesNone(d) == TRUE

\* datetime.strptime(current_date, "%Y-%m-%d") succeeds
DateParses(d) == d \in {"valid", "today"}

\* MACDDivergenceAgent.run: if current_date is None, today's date is taken
DefaultDate(a, d) == IF a = "macd" /\ d = "none" THEN "today" ELSE d

\* faulty variant: no except clause
OnErrorRaise(kind) == "raise"

\* except Exception: continue
OnError(kind) == "continue"

\* df is None or len(df) == 0
NoData(outcome) == outcome.kind = "none" \/ (outcome.kind = "table" /\ Len(outcome.table.rows) = 0)

\* the index run compares s["idx"] with
LastIdx(a, t) == IF a = "kangaroo" THEN Len(t.rows) - 1 ELSE Len(PrepareDf(t).rows) - 1

\* [s for s in signals if s["idx"] == last_idx]
TodaySignals(signals, last_idx) ==
    With(last_idx, LAMBDA last : SelectSeq(signals, LAMBDA s : s.idx = last))

Store(res, symbol, today) ==
    [s \in DOMAIN res \cup {symbol} |-> IF s = symbol THEN today ELSE res[s]]

(***************************************************************************)
(* Inputs                                                                  *)
(***************************************************************************)
MaxClose == 2
MaxSpan == 2
MaxUniverse == 2
DefaultMinGapDays == 5

Columns == Mandatory \cup {"date"}

\* the names the index of an input table may carry: "none" is an unnamed index, a
\* column name is the index of a table indexed by that column (df.set_index)
IndexNames == {"none", "date", "open"}

SeqsUpTo(S, n) == UNION {[1..k -> S] : k \in 0..n}

\* a raw table holding the bars in the given order.  The timestamps stamps[k] are in
\* the date column when there is one and are the index labels otherwise, unless the
\* table is indexed by a price column
MkTable(cols, iname, bars, stamps) ==
    LET cell(k, c) == IF c \in cols THEN bars[k][c] ELSE 0
    IN  [cols |-> cols, iname |-> iname,
         rows |-> [k \in 1..Len(bars) |->
                     [index |-> IF "date" \in cols THEN k - 1
                                ELSE IF iname \in {"none", "date"} THEN stamps[k]
                                ELSE bars[k][iname],
                      date |-> IF "date" \in cols THEN stamps[k] ELSE 0,
                      open |-> cell(k, "open"), high |-> cell(k, "high"),
                      low |-> cell(k, "low"), close |-> cell(k, "close")]]]

\* one timestamp a day, at changing times of the day
Stamps(n) == [k \in 1..n |-> (k - 1) * TicksPerDay + ((k - 1) % TicksPerDay)]

Reverse(s) == [k \in 1..Len(s) |-> s[Len(s) + 1 - k]]

Levels == {0, 1, MaxPrice}

Flat(p) == [open |-> p, high |-> p, low |-> p, close |-> p]
Candle(o, c) == [open |-> o, high |-> MaxPrice, low |-> 0, close |-> c]

\* flat bars, and the candles spanning the whole price range that do not close
\* below their open
KBars ==
    {Flat(p) : p \in Levels}
    \cup {Candle(oc[1], oc[2]) : oc \in {x \in Levels \X Levels : x[1] <= x[2]}}

KConfigs ==
    {[tail_type |-> side, tail_min_ratio |-> q[1], body_max_ratio |-> q[2],
      min_trend_days |-> n, trend_required |-> tr] :
        side \in {"lower", "upper"},
        q \in {<<DefaultTailMinRatio, DefaultBodyMaxRatio>>, <<(<<1, 1>>), (<<1, 3>>)>>},
        n \in 1..MaxTrend, tr \in BOOLEAN}

MConfigs ==
    {[short_window |-> sw, long_window |-> lw, signal_window |-> gw, min_gap_days |-> g] :
        sw \in {1, MaxSpan}, lw \in {1, MaxSpan}, gw \in {1, MaxSpan},
        g \in {2, DefaultMinGapDays}}

Configs(a) == IF a = "kangaroo" THEN KConfigs ELSE MConfigs

KScanTables ==
    {MkTable(Columns, "none", bars, Stamps(Len(bars))) : bars \in SeqsUpTo(KBars, KMaxLen)}

\* series of three turning points, ExtremaOrder bars of one level between them
Turns ==
    {[k \in 1..(2 * ExtremaOrder + 3) |->
         IF (k - 1) % (ExtremaOrder + 1) = 0 THEN t[1 + (k - 1) \div (ExtremaOrder + 1)] ELSE level] :
        t \in [1..3 -> 0..MaxClose], level \in 0..MaxClose}

MScanTables ==
    {MkTable(Columns, "none", [k \in 1..Len(cl) |-> Flat(cl[k])], Stamps(Len(cl))) :
        cl \in SeqsUpTo(0..MaxClose, 2 * ExtremaOrder) \cup Turns}

ScanTables(a) == IF a = "kangaroo" THEN KScanTables ELSE MScanTables

\* what the data source hands to run: tables with or without a date column, with
\* at most one of the required columns missing, in ascending or descending order
ColumnChoices ==
    {m \cup d : m \in {Mandatory} \cup {Mandatory \ {c} : c \in Mandatory}, d \in {{}, {"date"}}}

\* the index of a table with a date column is left unnamed
Headers ==
    {h \in ColumnChoices \X IndexNames : "date" \in h[1] => h[2] = "none"}

Shapes(bars) ==
    {MkTable(h[1], h[2], b[1], b[2]) :
        h \in Headers,
        b \in {<<bars, Stamps(Len(bars))>>, <<Reverse(bars), Reverse(Stamps(Len(bars)))>>}}

KRunSeries ==
    {<<>>} \cup {<<c>> : c \in {Candle(0, 0), Candle(MaxPrice, MaxPrice)}}
    \cup {<<Flat(p), Flat(q), c>> : p \in {0, 1}, q \in {0, 1},
                                    c \in {Candle(0, 0), Candle(MaxPrice, MaxPrice)}}

MRunSeries ==
    {<<>>} \cup {[k \in 1..Len(cl) |-> Flat(cl[k])] : cl \in [1..(ExtremaOrder + 2) -> {0, MaxClose}]}

RunTables(a) == UNION {Shapes(bars) : bars \in IF a = "kangaroo" THEN KRunSeries ELSE MRunSeries}

RunConfigs(a) ==
    IF a = "kangaroo"
    THEN {c \in KConfigs : c.tail_min_ratio = DefaultTailMinRatio /\ c.min_trend_days = 2}
    ELSE {c \in MConfigs : c.short_window # c.long_window /\ c.signal_window = MaxSpan
                           /\ c.min_gap_days = 2}

\* get_data_in_range: raises, returns None, or returns a table
FetchOutcomes(a) ==
    {[kind |-> "raise"], [kind |-> "none"]} \cup {[kind |-> "table", table |-> t] : t \in RunTables(a)}

NoTable == [cols |-> {}, iname |-> "none", rows |-> <<>>]
NoFrame == [err |-> "unset"]
NoRet == [kind |-> "unset", signals |-> <<>>]
NoResults == [s \in {} |-> <<>>]

(***************************************************************************)
(* Direct calls of detect_signals                                          *)
(***************************************************************************)
InitDirect(a) ==
    /\ agent = a
    /\ cfg \in Configs(a)
    /\ df \in ScanTables(a)
    /\ frame = NoFrame
    /\ ret = NoRet
    /\ prev = NoRet
    /\ calls = 0
    /\ pc = "direct"
    /\ current_date = "valid"
    /\ sym = 0
    /\ fetched = "unset"
    /\ fetches = 0
    /\ results = NoResults

\* a caller runs detect_signals(df) and, once more, on the same table
CallDetect(a) ==
    /\ pc = "direct"
    /\ agent = a
    /\ calls < 2
    /\ \E out \in {DetectSignals(a, cfg, df)} :
           /\ ret' = [kind |-> out.kind, signals |-> out.signals]
           /\ frame' = out.frame
    /\ prev' = ret
    /\ calls' = calls + 1
    /\ UNCHANGED <<agent, cfg, df, pc, current_date, sym, fetched, fetches, results>>

KCallDetect == CallDetect("kangaroo")
MCallDetect == CallDetect("macd")

InitK == InitDirect("kangaroo")
InitM == InitDirect("macd")

SpecK == InitK /\ [][KCallDetect]_vars
SpecM == InitM /\ [][MCallDetect]_vars

InitScan == InitK \/ InitM
NextScan == KCallDetect \/ MCallDetect
SpecScan == InitScan /\ [][NextScan]_vars

(***************************************************************************)
(* run(current_date)                                                       *)
(***************************************************************************)
InitRun ==
    /\ agent \in {"kangaroo", "macd"}
    /\ cfg \in RunConfigs(agent)
    /\ current_date \in {"none", "valid"}
    /\ pc = "enter"
    /\ sym = 0
    /\ fetched = "unset"
    /\ fetches = 0
    /\ results = NoResults
    /\ df = NoTable
    /\ frame = NoFrame
    /\ ret = NoRet
    /\ prev = NoRet
    /\ calls = 0

\* results = {} and, in MACDDivergenceAgent, the default of current_date
RunEnter ==
    /\ pc = "enter"
    /\ pc' = "for"
    /\ results' = NoResults
    /\ current_date' = DefaultDate(agent, current_date)
    /\ UNCHANGED <<agent, cfg, df, frame, ret, prev, calls, sym, fetched, fetches>>

\* for sym in self.universe: the next symbol; sym counts the symbols taken so far,
\* and the values the last pass left in df and signals are dead
RunNext ==
    /\ pc = "for"
    /\ sym < MaxUniverse
    /\ sym' = sym + 1
    /\ pc' = "try"
    /\ df' = NoTable
    /\ frame' = NoFrame
    /\ ret' = NoRet
    /\ fetched' = "unset"
    /\ UNCHANGED <<agent, cfg, prev, calls, current_date, fetches, results>>

\* where a pass that raised an exception of this kind goes on
AfterError(kind) == IF OnError(kind) = "continue" THEN "for" ELSE "raised"

\* the start date and the call of get_data_in_range, up to "if df is None ..."
RunFetch ==
    /\ pc = "try"
    /\ IF ~DateParses(current_date)
       THEN /\ fetched' = "notqueried"
            /\ pc' = AfterError("TypeError")
            /\ UNCHANGED <<df, fetches>>
       ELSE \E outcome \in FetchOutcomes(agent) :
               /\ fetched' = outcome.kind
               /\ fetches' = fetches + 1
               /\ df' = IF outcome.kind = "table" THEN outcome.table ELSE NoTable
               /\ pc' = IF outcome.kind = "raise" THEN AfterError("RuntimeError")
                         ELSE IF NoData(outcome) THEN "for"
                         ELSE "scan"
    /\ UNCHANGED <<agent, cfg, frame, ret, prev, calls, current_date, sym, results>>

\* signals = self.detect_signals(df), and what run keeps of them
RunScan(a) ==
    /\ pc = "scan"
    /\ agent = a
    /\ \E out \in {DetectSignals(a, cfg, df)} :
           /\ ret' = [kind |-> out.kind, signals |-> out.signals]
           /\ frame' = out.frame
           /\ results' = IF out.kind = "ok" /\ out.signals # <<>>
                          THEN With(TodaySignals(out.signals, LastIdx(a, df)), LAMBDA today_signals :
                                   IF today_signals # <<>>
                                   THEN Store(results, sym, today_signals)
                                   ELSE results)
                          ELSE results
           /\ pc' = IF out.kind = "ok" THEN "for" ELSE AfterError(out.kind)
    /\ UNCHANGED <<agent, cfg, df, prev, calls, current_date, sym, fetched, fetches>>

KRunScan == RunScan("kangaroo")
MRunScan == RunScan("macd")

\* return results
RunReturn ==
    /\ pc = "for"
    /\ sym = MaxUniverse
    /\ pc' = "returned"
    /\ UNCHANGED <<agent, cfg, df, frame, ret, prev, calls, current_date, sym, fetched, fetches, results>>

NextRun == RunEnter \/ RunNext \/ RunFetch \/ KRunScan \/ MRunScan \/ RunReturn

SpecRun == InitRun /\ [][NextRun]_vars

(***************************************************************************)
(* Properties of KangarooTailAgent.detect_signals                          *)
(***************************************************************************)
RECURSIVE SumOver(_, _)
\* the sum of f[j] over the finite set S
SumOver(S, f) ==
    IF S = {} THEN 0
    ELSE LET j == CHOOSE x \in S : TRUE IN f[j] + SumOver(S \ {j}, f)

\* the bar at 0-based position i of the prepared series
BarAt(i) == frame.rows[i + 1]
Positions == 0..(Len(frame.rows) - 1)

Scanned == pc = "direct" /\ calls >= 1

RangeAt(j) == IF BarAt(j).high - BarAt(j).low >= Eps THEN BarAt(j).high - BarAt(j).low ELSE Eps
ShadowAt(i) ==
    IF cfg.tail_type = "lower"
    THEN (IF BarAt(i).close <= BarAt(i).open THEN BarAt(i).close ELSE BarAt(i).open) - BarAt(i).low
    ELSE BarAt(i).high - (IF BarAt(i).close >= BarAt(i).open THEN BarAt(i).close ELSE BarAt(i).open)
BodyAt(i) == Abs(BarAt(i).close - BarAt(i).open)

\* gate 1: full_range >= 2 * avg_range
OutlierRange(i) ==
    LET before == {j \in Positions : j < i /\ j >= i - cfg.min_trend_days}
    IN  IF before = {} THEN RangeAt(i) >= 2 * Eps
        ELSE RangeAt(i) * Cardinality(before) >= 2 * SumOver(before, [j \in before |-> RangeAt(j)])

\* gate 2: body / full_range <= body_max_ratio
SmallBody(i) == BodyAt(i) * cfg.body_max_ratio[2] <= cfg.body_max_ratio[1] * RangeAt(i)

\* gate 3: the shadow against the body and against the range
LongShadow(i) ==
    /\ ShadowAt(i) * cfg.tail_min_ratio[2] >= cfg.tail_min_ratio[1] * (IF BodyAt(i) >= Eps THEN BodyAt(i) ELSE Eps)
    /\ 5 * ShadowAt(i) >= 2 * RangeAt(i)

\* gate 4: the mean of the differences of the trend_window closes before i has the
\* sign of the side; there is no such mean when fewer than two closes are taken
TrendConfirmed(i) ==
    LET n == cfg.min_trend_days
        steps == {j \in Positions : j < i /\ j > i - n}
        total == SumOver(steps, [j \in steps |-> BarAt(j).close - BarAt(j - 1).close])
    IN  /\ i >= n
        /\ steps # {}
        /\ IF cfg.tail_type = "lower" THEN total < 0 ELSE total > 0

AllGates(i) ==
    OutlierRange(i) /\ SmallBody(i) /\ LongShadow(i) /\ (cfg.trend_required => TrendConfirmed(i))

SignalsAt(i) == {k \in 1..Len(ret.signals) : ret.signals[k].idx = i}

C3_NoSignalBeforeTrendWindow ==
    Scanned =>
        /\ ret.kind = "ok"
        /\ cfg.trend_required =>
              \A k \in 1..Len(ret.signals) : ret.signals[k].idx >= cfg.min_trend_days

\* a bar with too few bars before it passes gates 1-3 and falls before its
\* closes, is not signalled, and a later bar of the same scan is
C3_Witness ==
    /\ Scanned
    /\ cfg.trend_required
    /\ ret.kind = "ok"
    /\ \E i \in Positions :
          /\ i < cfg.min_trend_days
          /\ i >= 2
          /\ OutlierRange(i) /\ SmallBody(i) /\ LongShadow(i)
          /\ BarAt(i - 1).close # BarAt(i - 2).close
          /\ SignalsAt(i) = {}

\* C4: every Signal carries a shadow of its side of at least 0.4 of full_range,
\* full_range being max(high - low, eps) and never zero; no scan divides by zero.
C4_ShadowShare ==
    Scanned =>
        /\ ret.kind # "ZeroDivisionError"
        /\ \A k \in 1..Len(ret.signals) :
              LET s == ret.signals[k]
                  b == BarAt(s.idx)
                  shadow == IF s.type = "lower" THEN s.lower_shadow ELSE s.upper_shadow
              IN  /\ s.type = cfg.tail_type
                  /\ s.full_range > 0
                  /\ s.full_range = (IF b.high - b.low >= Eps THEN b.high - b.low ELSE Eps)
                  /\ shadow = ShadowAt(s.idx)
                  /\ 5 * shadow >= 2 * s.full_range

\* a scan over a series with a zero-range bar that emits a Signal
C4_Witness ==
    /\ Scanned
    /\ ret.signals # <<>>
    /\ \E i \in Positions : BarAt(i).high = BarAt(i).low

(***************************************************************************)
(* Properties of MACDDivergenceAgent.detect_signals and _calc_macd         *)
(***************************************************************************)
CloseAt(i) == BarAt(i).close
HistAt(i) == frame.macd.hist[i + 1]

\* i is a local extremum of close of radius 3: no close within 3 positions of i,
\* positions outside the series left out, is lower (min) or higher (max)
LocalExtremum(kind, i) ==
    \A j \in Positions :
        (j >= i - 3 /\ j <= i + 3) =>
            IF kind = "bullish_divergence" THEN CloseAt(i) <= CloseAt(j) ELSE CloseAt(i) >= CloseAt(j)

\* idx1 and idx2 follow each other in the ordered list of the extrema of a kind
ConsecutiveExtrema(kind, idx1, idx2) ==
    /\ idx1 < idx2
    /\ LocalExtremum(kind, idx1)
    /\ LocalExtremum(kind, idx2)
    /\ \A j \in Positions : (idx1 < j /\ j < idx2) => ~LocalExtremum(kind, j)

DivergentPair(kind, idx1, idx2) ==
    /\ ConsecutiveExtrema(kind, idx1, idx2)
    /\ BarAt(idx2).date - BarAt(idx1).date >= cfg.min_gap_days * TicksPerDay
    /\ IF kind = "bullish_divergence"
       THEN CloseAt(idx2) < CloseAt(idx1) /\ HistAt(idx2) > HistAt(idx1)
       ELSE CloseAt(idx2) > CloseAt(idx1) /\ HistAt(idx2) < HistAt(idx1)

SignalsOfKind(kind) == SelectSeq(ret.signals, LAMBDA s : s.type = kind)

Kinds == {"bullish_divergence", "bearish_divergence"}

\* C2: the Signals of a kind are, one for one, the pairs of consecutive local
\* extrema of that kind that lie min_gap_days apart and diverge, each at idx2.
C2_SignalsAreDivergentPairs ==
    Scanned =>
        /\ ret.kind = "ok"
        /\ \A k \in 1..Len(ret.signals) : ret.signals[k].type \in Kinds
        /\ \A kind \in Kinds :
              LET sigs == SignalsOfKind(kind)
                  at == {idx2 \in Positions : \E idx1 \in Positions : DivergentPair(kind, idx1, idx2)}
              IN  /\ {sigs[k].idx : k \in 1..Len(sigs)} = at
                  /\ Len(sigs) = Cardinality(at)
                  /\ \A k \in 1..Len(sigs) : LocalExtremum(kind, sigs[k].idx)

\* a scan with the fast average shorter than the slow one emits a bullish Signal
\* while another pair of consecutive extrema of the same series is rejected
C2_Witness ==
    /\ Scanned
    /\ cfg.short_window < cfg.long_window
    /\ \E k \in 1..Len(ret.signals) : ret.signals[k].type = "bullish_divergence"
    /\ \E kind \in Kinds : \E idx1, idx2 \in Positions :
          ConsecutiveExtrema(kind, idx1, idx2) /\ ~DivergentPair(kind, idx1, idx2)

\* C9: the three MACD series are as long as the close series; the signal line
\* starts at diff[0] and follows the recursion of span signal_window; diff[0] and
\* histogram[0] are 0; on a constant close series diff and histogram are 0
\* everywhere and no Signal is emitted.
C9_MacdSeededAtFirstValue ==
    (Scanned /\ Len(frame.rows) >= 1) =>
        LET n == Len(frame.rows)
            m == frame.macd
            w == cfg.signal_window
        IN  /\ Len(m.diff) = n /\ Len(m.dea) = n /\ Len(m.hist) = n
            /\ m.diff[1] = 0
            /\ m.dea[1] = m.diff[1]
            /\ m.hist[1] = 0
            /\ \A t \in 2..n : (w + 1) * m.dea[t] = 2 * m.diff[t] + (w - 1) * m.dea[t - 1]
            /\ \A t \in 1..n : m.hist[t] = m.diff[t] - m.dea[t]
            /\ (\A t \in 1..n : frame.rows[t].close = frame.rows[1].close) =>
                  /\ \A t \in 1..n : m.diff[t] = 0 /\ m.hist[t] = 0
                  /\ ret.signals = <<>>

\* a constant, non-zero close series is scanned with two different spans; every
\* position of it is a local minimum
C9_Witness ==
    /\ Scanned
    /\ Len(frame.rows) >= 2 * ExtremaOrder
    /\ cfg.short_window # cfg.long_window
    /\ cfg.signal_window > 1
    /\ \A t \in 1..Len(frame.rows) : frame.rows[t].close = MaxClose
    /\ Len(frame.low_idxs) = Len(frame.rows)

(***************************************************************************)
(* Order and repeatability of detect_signals, both detectors               *)
(***************************************************************************)
StrictlyAscending(sigs) == \A k \in 1..(Len(sigs) - 1) : sigs[k].idx < sigs[k + 1].idx

RunScanned == pc \in {"for", "returned", "raised"} /\ ret.kind # "unset"

\* C5: a table with the five mandatory columns is prepared into a series whose
\* timestamps ascend with the row position, whether they were taken from the date
\* column or from the index of the table.
C5_PreparedAscending ==
    (RunScanned /\ Mandatory \subseteq df.cols /\ frame.err = "none" /\ "date" \in frame.cols) =>
        \A k \in 1..(Len(frame.rows) - 1) : frame.rows[k].date <= frame.rows[k + 1].date

\* C6: detect_signals on a table that lacks one of open, high, low, close, volume
\* raises the schema error and returns no list, with or without a date column.
C6_MissingColumnRaises ==
    (RunScanned /\ ~(Mandatory \subseteq df.cols)) =>
        (ret.kind = "ValueError" /\ ret.signals = <<>>)

\* the Signals of the scan just made that lie on the last bar of the fetched table
Today == SelectSeq(ret'.signals, LAMBDA s : s.idx = Len(df.rows) - 1)

\* C7: with a reference date that parses, no step of run raises; a symbol whose
\* fetch raises or yields nothing, or whose scan raises, leaves the mapping as it
\* was and the loop goes on; a scan that returns puts the symbol in the mapping
\* exactly when some Signal lies on the last bar, with exactly those Signals; run
\* returns only after the last symbol of the universe.
C7_RunStep ==
    (DateParses(current_date) /\ pc # "enter") =>
        /\ pc' # "raised"
        /\ pc = "try" =>
              /\ pc' = (IF fetched' = "table" /\ Len(df'.rows) > 0 THEN "scan" ELSE "for")
              /\ results' = results
        /\ pc = "scan" =>
              /\ pc' = "for"
              /\ IF ret'.kind = "ok" /\ Today # <<>>
                 THEN /\ DOMAIN results' = DOMAIN results \cup {sym}
                      /\ results'[sym] = Today
                      /\ \A s \in DOMAIN results \ {sym} : results'[s] = results[s]
                 ELSE results' = results
        /\ pc' = "returned" => (sym = MaxUniverse /\ results' = results)
        /\ \A s \in DOMAIN results' : results'[s] # <<>>

C7_RunSkipsAndCollects == [][C7_RunStep]_vars

\* run has returned; the scan of the last symbol raised the schema error, and the
\* mapping holds the Signals of the first symbol only
C7_Witness ==
    /\ pc = "returned"
    /\ DateParses(current_date)
    /\ ret.kind = "ValueError"
    /\ DOMAIN results = {1}
    /\ fetches = MaxUniverse

\* C10: KangarooTailAgent.run without a reference date never queries the data
\* source, never raises and keeps the mapping empty; MACDDivergenceAgent.run
\* without one works with today's date and has queried the data source for
\* every symbol when it returns.
C10_NoReferenceDate ==
    /\ (agent = "kangaroo" /\ current_date = "none") =>
          /\ fetches = 0
          /\ fetched \in {"unset", "notqueried"}
          /\ results = NoResults
          /\ pc \notin {"scan", "raised"}
    /\ agent = "kangaroo" => current_date # "today"
    /\ (agent = "macd" /\ pc # "enter") => current_date \in {"valid", "today"}
    /\ (agent = "macd" /\ pc = "try") => fetches = sym - 1
    /\ (agent = "macd" /\ pc \in {"for", "scan", "returned"}) => fetches = sym
    /\ pc # "raised"

\* KangarooTailAgent.run(None) has gone through the whole universe and returned
C10_Witness ==
    /\ agent = "kangaroo"
    /\ current_date = "none"
    /\ pc = "returned"
    /\ sym = MaxUniverse
    /\ fetched = "notqueried"

====
